---- MODULE Spec2Model ----
(***************************************************************************)
(* tide-tracker (src/src/index.ts): six entrypoints that fetch tide, wind  *)
(* and station JSON from the NOAA API and reshape it.                      *)
(*                                                                         *)
(* Representation of JavaScript values:                                    *)
(*   - a string whose characters matter (times, numeric fields, state      *)
(*     codes) is a sequence of one-character strings; a string that is     *)
(*     only compared or copied (type codes, labels, ids) is a TLA+ string; *)
(*   - a number is [nan |-> BOOLEAN, v |-> Int], v in hundredths;          *)
(*   - an object is a record; a property that may be missing, undefined    *)
(*     or null holds <<>> (absent) or <<x>> (present with value x).        *)
(***************************************************************************)
EXTENDS Integers, Sequences, FiniteSets, TLC

VARIABLES
    pc,       \* "idle", "awaiting" (the handler awaits its calls) or "done"
    ep,       \* key of the entrypoint whose handler runs, "none" when idle
    input,    \* ctx.input as the schema parsed it (overview: the featured pick)
    fetches,  \* the handler's fetchJSON calls, in the order of the source
    issued,   \* number of fetch(url) calls the handler has made
    now,      \* the last reading of the clock (new Date())
    result,   \* what left the handler: {output}, an exception, or nothing yet
    fnOp,     \* the normalisation function applied, "idle" when none
    fnArg,    \* its argument
    fnRet     \* its return value

vars == <<pc, ep, input, fetches, issued, now, result, fnOp, fnArg, fnRet>>

reqVars == <<pc, ep, input, fetches, issued, now, result>>

fnVars == <<fnOp, fnArg, fnRet>>

(* ------------------------------ bounds -------------------------------- *)

\* longest sequence of raw records handed to a normalisation function
MaxLen == 2

\* longest upstream station list in a search
MaxStations == 3

(* --------------------------- JS primitives ---------------------------- *)

None == <<>>

Some(x) == <<x>>

Scale == 100

NaN == [nan |-> TRUE, v |-> 0]

Num(n) == [nan |-> FALSE, v |-> n]

\* IEEE comparison a > b: false as soon as one side is NaN
Gt(a, b) == ~a.nan /\ ~b.nan /\ a.v > b.v

Lte(a, b) == ~a.nan /\ ~b.nan /\ a.v <= b.v

\* ToIntegerOrInfinity of a finite number: truncation toward zero
Trunc(n) == IF n.v >= 0 THEN n.v \div Scale ELSE -((-n.v) \div Scale)

SeqUpTo(S, n) == UNION {[1..k -> S] : k \in 0..n}

IsDigit(c) == c \in {"0", "1", "2", "3", "4", "5", "6", "7", "8", "9"}

DigitVal(c) ==
    CASE c = "0" -> 0 [] c = "1" -> 1 [] c = "2" -> 2 [] c = "3" -> 3
      [] c = "4" -> 4 [] c = "5" -> 5 [] c = "6" -> 6 [] c = "7" -> 7
      [] c = "8" -> 8 [] c = "9" -> 9

RECURSIVE CountDigits(_)
CountDigits(s) ==
    IF s # <<>> /\ IsDigit(Head(s)) THEN 1 + CountDigits(Tail(s)) ELSE 0

RECURSIVE DigitsVal(_)
DigitsVal(s) ==
    IF s = <<>> THEN 0 ELSE DigitsVal(SubSeq(s, 1, Len(s) - 1)) * 10 + DigitVal(s[Len(s)])

RECURSIVE TrimStart(_)
TrimStart(s) == IF s # <<>> /\ Head(s) = " " THEN TrimStart(Tail(s)) ELSE s

\* the sign, the unsigned rest, its leading digits and the fraction digits
\* of the longest numeric prefix of s
NumericPrefix(s) ==
    LET t == TrimStart(s)
        signed == t # <<>> /\ Head(t) \in {"-", "+"}
        u == IF signed THEN Tail(t) ELSE t
        ni == CountDigits(u)
        r == SubSeq(u, ni + 1, Len(u))
        fr == IF r # <<>> /\ Head(r) = "."
              THEN SubSeq(Tail(r), 1, CountDigits(Tail(r)))
              ELSE <<>>
    IN [neg |-> signed /\ Head(t) = "-", int |-> SubSeq(u, 1, ni), frac |-> fr]

\* parseFloat: the longest prefix [ws][sign]digits[.digits]; NaN when it
\* holds no digit.  Fraction digits past the second are dropped (v is in
\* hundredths); exponents are not read (no modelled string holds one).
ParseFloat(s) ==
    LET p == NumericPrefix(s)
        f == p.frac \o <<"0", "0">>
        mag == DigitsVal(p.int) * Scale + DigitVal(f[1]) * 10 + DigitVal(f[2])
    IN IF p.int = <<>> /\ p.frac = <<>> THEN NaN
       ELSE Num(IF p.neg THEN -mag ELSE mag)

\* parseInt, radix 10: the longest prefix [ws][sign]digits; NaN without digit
ParseInt(s) ==
    LET p == NumericPrefix(s)
        mag == DigitsVal(p.int) * Scale
    IN IF p.int = <<>> THEN NaN ELSE Num(IF p.neg THEN -mag ELSE mag)

\* String.prototype.split(' ')[0]: the characters before the first space
RECURSIVE SplitFirst(_)
SplitFirst(s) ==
    IF s = <<>> \/ Head(s) = " " THEN <<>> ELSE <<Head(s)>> \o SplitFirst(Tail(s))

\* String.prototype.replace(' ', 'T'): the first space only
RECURSIVE ReplaceSpace(_)
ReplaceSpace(s) ==
    IF s = <<>> THEN <<>>
    ELSE IF Head(s) = " " THEN <<"T">> \o Tail(s)
    ELSE <<Head(s)>> \o ReplaceSpace(Tail(s))

\* String.prototype.toUpperCase on the letters the model uses
UpperChar(c) ==
    CASE c = "a" -> "A" [] c = "c" -> "C" [] c = "n" -> "N" [] c = "y" -> "Y"
      [] OTHER -> c

ToUpperCase(s) == [i \in 1..Len(s) |-> UpperChar(s[i])]

\* new Date(string) as a time value.  Timestamps are modelled in a
\* one-digit miniature of "YYYY-MM-DDTHH:mm": <<d, "T", h>> is day d, hour
\* h (time value 10*d + h), the date-only form <<d>> is midnight of day d,
\* and every other string is an Invalid Date, whose time value is NaN.
DateParse(s) ==
    IF Len(s) = 3 /\ IsDigit(s[1]) /\ s[2] = "T" /\ IsDigit(s[3])
    THEN Num((DigitVal(s[1]) * 10 + DigitVal(s[3])) * Scale)
    ELSE IF Len(s) = 1 /\ IsDigit(s[1]) THEN Num(DigitVal(s[1]) * 10 * Scale)
    ELSE NaN

(* ----------------------- normalisation functions ---------------------- *)

\* p.type is None when the record has no type property
TideType(p) ==
    IF p.type = Some("H") THEN "high"
    ELSE IF p.type = Some("L") THEN "low"
    ELSE "reading"

ParseTide(p) == [time |-> p.t, height |-> ParseFloat(p.v), type |-> TideType(p)]

\* mutant: records of unknown type are filtered out
parseTides_DropReadings(predictions) ==
    SelectSeq([i \in 1..Len(predictions) |-> ParseTide(predictions[i])],
              LAMBDA x : x.type # "reading")

parseTides(predictions) == [i \in 1..Len(predictions) |-> ParseTide(predictions[i])]

\* mutant: the first sample is taken instead of the last
parseWind_First(data) ==
    IF data = None \/ Len(data[1]) = 0 THEN None
    ELSE LET latest == data[1][1]
         IN Some([time |-> latest.t,
                  speed |-> ParseFloat(latest.s),
                  direction |-> ParseInt(latest.d),
                  directionLabel |-> latest.dr,
                  gust |-> ParseFloat(latest.g)])

parseWind(data) ==
    IF data = None \/ Len(data[1]) = 0 THEN None
    ELSE LET latest == data[1][Len(data[1])]
         IN Some([time |-> latest.t,
                  speed |-> ParseFloat(latest.s),
                  direction |-> ParseInt(latest.d),
                  directionLabel |-> latest.dr,
                  gust |-> ParseFloat(latest.g)])

RECURSIVE ByDateLoop(_, _)

\* mutant: the bucket is created anew on every prediction
ByDateLoop_Recreate(byDate, tides) ==
    IF tides = <<>> THEN byDate
    ELSE LET tide == Head(tides)
             date == SplitFirst(tide.time)
             made == (date :> <<>>) @@ byDate
         IN ByDateLoop([made EXCEPT ![date] = Append(@, tide)], Tail(tides))

ByDateLoop(byDate, tides) ==
    IF tides = <<>> THEN byDate
    ELSE LET tide == Head(tides)
             date == SplitFirst(tide.time)
             made == IF date \in DOMAIN byDate THEN byDate ELSE byDate @@ (date :> <<>>)
         IN ByDateLoop([made EXCEPT ![date] = Append(@, tide)], Tail(tides))

ByDate(tides) == ByDateLoop(<<>>, tides)

\* mutant: a prediction at the very instant counts as upcoming
IsUpcoming_OrEqual(t, clock) ==
    LET d == DateParse(ReplaceSpace(t.time))
    IN ~d.nan /\ d.v >= clock * Scale

IsUpcoming(t, clock) == Gt(DateParse(ReplaceSpace(t.time)), Num(clock * Scale))

Upcoming(todayParsed, clock) == SelectSeq(todayParsed, LAMBDA t : IsUpcoming(t, clock))

NextTide(todayParsed, clock) ==
    LET upcoming == Upcoming(todayParsed, clock)
    IN IF upcoming # <<>> THEN Some(upcoming[1]) ELSE None

WindySpeed == 15

ModerateSpeed == 8

\* mutant: the thresholds are inclusive
WindConditions_Inclusive(wind) ==
    IF wind # None
    THEN (IF ~Lte(wind[1].speed, Num(WindySpeed * Scale - 1)) /\ ~wind[1].speed.nan THEN "windy"
          ELSE IF ~Lte(wind[1].speed, Num(ModerateSpeed * Scale - 1)) /\ ~wind[1].speed.nan
               THEN "moderate"
          ELSE "calm")
    ELSE "unknown"

WindConditions(wind) ==
    IF wind # None
    THEN (IF Gt(wind[1].speed, Num(WindySpeed * Scale)) THEN "windy"
          ELSE IF Gt(wind[1].speed, Num(ModerateSpeed * Scale)) THEN "moderate"
          ELSE "calm")
    ELSE "unknown"

(* ------------------------- upstream universes ------------------------- *)

\* timestamps "d h" in the miniature format, and malformed ones: a date
\* without time, a leading space, a doubled space, a non-date
Times ==
    {<<"1", " ", "2">>, <<"1", " ", "5">>, <<"2", " ", "1">>,
     <<"1">>, <<" ", "5">>, <<"1", " ", " ", "5">>, <<"k">>}

GoodTimes == {<<"1", " ", "2">>, <<"1", " ", "5">>, <<"2", " ", "1">>}

Heights == {<<"1", ".", "5">>, <<"k">>}

TypeCodes == {None, Some("H"), Some("L"), Some("X")}

\* raw prediction records {t, v, type} with every type code
RawPredictions == [t : GoodTimes, v : Heights, type : TypeCodes]

\* raw prediction records with every shape of timestamp
RawTimed == [t : Times, v : {<<"1", ".", "5">>}, type : {Some("H"), Some("L")}]

\* wind speeds around the two thresholds, and unparsable ones (NOAA sends
\* "" for a missing sample)
SpeedStrs ==
    {<<>>, <<"k">>, <<"3">>, <<"8">>, <<"8", ".", "5">>, <<"9">>,
     <<"1", "5">>, <<"1", "5", ".", "2", "5">>, <<"1", "6">>, <<"-", "1">>}

RawWinds ==
    [t : {<<"1", " ", "2">>, <<"1", " ", "5">>},
     s : {<<"3">>, <<"9">>, <<"1", "6">>, <<>>},
     d : {<<"2", "7", "0", ".", "0", "0">>, <<>>},
     dr : {"W"},
     g : {<<"1", "2", ".", "5">>, <<>>}]

\* instants of the clock, on the scale of DateParse (10 * day + hour)
Clock == {11, 12, 15}

(* ------------------------------ requests ------------------------------ *)

FEATURED_STATIONS ==
    <<[id |-> "9414290", name |-> "San Francisco, CA"],
      [id |-> "8518750", name |-> "The Battery, NY"],
      [id |-> "8723214", name |-> "Miami Beach, FL"],
      [id |-> "1612340", name |-> "Honolulu, HI"],
      [id |-> "9410660", name |-> "Los Angeles, CA"]>>

\* a JSON value of a request body: a string or a number
JStr(s) == [t |-> "string", s |-> s, n |-> NaN]

JNum(n) == [t |-> "number", s |-> <<>>, n |-> Num(n)]

RawStationIds == {None, Some(JStr(<<"9", "4">>)), Some(JStr(<<"k">>)), Some(JNum(94 * Scale))}

RawStates ==
    {None, Some(JStr(<<"c", "a">>)), Some(JStr(<<"C", "A">>)), Some(JStr(<<"n", "y">>)),
     Some(JStr(<<"c">>)), Some(JStr(<<"c", "a", "l">>)), Some(JNum(12 * Scale))}

\* limits -1, 0, 1, 1.5, 2, none, and a string
RawLimits ==
    {None, Some(JNum(-Scale)), Some(JNum(0)), Some(JNum(Scale)), Some(JNum(Scale + 50)),
     Some(JNum(2 * Scale)), Some(JStr(<<"2">>))}

\* day counts 0, 0.5, 1, 2.5, 7, 7.5, 8, none, and a string
RawDays ==
    {None, Some(JNum(0)), Some(JNum(50)), Some(JNum(Scale)), Some(JNum(2 * Scale + 50)),
     Some(JNum(7 * Scale)), Some(JNum(7 * Scale + 50)), Some(JNum(8 * Scale)),
     Some(JStr(<<"3">>))}

\* z.string()
ZString(v) == v # None /\ v[1].t = "string"

\* z.number(): a number that is not NaN
ZNumber(v) == v # None /\ v[1].t = "number" /\ ~v[1].n.nan

DefaultLimit == 20

DefaultDays == 3

MinDays == 1

MaxDays == 7

\* z.object({stationId: z.string()}): the parsed input, or None on rejection
StationInputSchema(raw) ==
    IF ZString(raw.stationId) THEN Some([stationId |-> raw.stationId[1].s]) ELSE None

\* z.object({state: z.string().length(2), limit: z.number().optional().default(20)})
SearchInputSchema(raw) ==
    IF /\ ZString(raw.state) /\ Len(raw.state[1].s) = 2
       /\ raw.limit = None \/ ZNumber(raw.limit)
    THEN Some([state |-> raw.state[1].s,
               limit |-> IF raw.limit = None THEN Num(DefaultLimit * Scale) ELSE raw.limit[1].n])
    ELSE None

\* z.object({stationId: z.string(),
\*           days: z.number().min(1).max(7).optional().default(3)})
ForecastInputSchema(raw) ==
    IF /\ ZString(raw.stationId)
       /\ raw.days = None
            \/ (/\ ZNumber(raw.days)
                /\ raw.days[1].n.v >= MinDays * Scale
                /\ raw.days[1].n.v <= MaxDays * Scale)
    THEN Some([stationId |-> raw.stationId[1].s,
               days |-> IF raw.days = None THEN Num(DefaultDays * Scale) ELSE raw.days[1].n])
    ELSE None

\* getDateStr(offsetDays) at the instant clock: the day of the instant plus
\* the offset, which Date.prototype.setDate truncates to an integer.  The
\* date is kept as a day number; it only goes into the URL.
getDateStr(offsetDays, clock) == clock \div 10 + Trunc(offsetDays)

(* -------------------------- upstream responses ------------------------ *)

PredA == [t |-> <<"1", " ", "2">>, v |-> <<"1", ".", "5">>, type |-> Some("H")]

PredB == [t |-> <<"1", " ", "5">>, v |-> <<"k">>, type |-> Some("L")]

PredC == [t |-> <<"2", " ", "1">>, v |-> <<"0", ".", "2">>, type |-> None]

UpstreamError == [message |-> "No Predictions data was found"]

\* bodies of a predictions query
TideBodies ==
    {[error |-> None, predictions |-> None],
     [error |-> Some(UpstreamError), predictions |-> None],
     [error |-> Some(UpstreamError), predictions |-> Some(<<PredA>>)],
     [error |-> None, predictions |-> Some(<<>>)],
     [error |-> None, predictions |-> Some(<<PredA, PredB>>)],
     [error |-> None, predictions |-> Some(<<PredB, PredC, PredA>>)]}

WindA == [t |-> <<"1", " ", "2">>, s |-> <<"1", "6">>, d |-> <<"2", "7", "0">>,
          dr |-> "W", g |-> <<"2", "0", ".", "5">>]

WindB == [t |-> <<"1", " ", "5">>, s |-> <<>>, d |-> <<>>, dr |-> "", g |-> <<>>]

\* bodies of a wind query
WindBodies ==
    {[data |-> None], [data |-> Some(<<>>)], [data |-> Some(<<WindB, WindA>>)],
     [data |-> Some(<<WindA, WindB>>)]}

NoStation ==
    [name |-> None, lat |-> None, lng |-> None, state |-> None,
     timezone |-> None, tideType |-> None]

StationA ==
    [name |-> Some("The Battery"), lat |-> Some(40), lng |-> Some(-74),
     state |-> Some(<<"N", "Y">>), timezone |-> Some("EST"), tideType |-> Some("Mixed")]

StationB == [NoStation EXCEPT !.name = Some(""), !.lat = Some(21)]

\* bodies of a station metadata query
StationBodies ==
    {[stations |-> None], [stations |-> Some(<<>>)], [stations |-> Some(<<StationA>>)],
     [stations |-> Some(<<StationB, StationA>>)]}

UpstreamStates == {<<"C", "A">>, <<"N", "Y">>, <<"c", "a">>}

\* a station of the upstream list; its id is its place in the list
ListedStation(i, st) ==
    [id |-> i, name |-> "station", lat |-> 30 + i, lng |-> -(70 + i), state |-> st,
     affiliations |-> "NWLON"]

StationLists ==
    {[i \in 1..Len(sts) |-> ListedStation(i, sts[i])] : sts \in SeqUpTo(UpstreamStates, MaxStations)}

\* bodies of the station list query
ListBodies == {[stations |-> None]} \cup {[stations |-> Some(l)] : l \in StationLists}

Bodies(product) ==
    CASE product = "predictions" -> TideBodies
      [] product = "wind" -> WindBodies
      [] product = "station" -> StationBodies
      [] product = "stations" -> ListBodies

\* what fetch(url) and response.json() can do: the fetch rejects, the
\* response is not OK, the body is not JSON, or the body is a JSON value
Responses(product) ==
    {[kind |-> "neterr", status |-> 0, body |-> None],
     [kind |-> "http", status |-> 500, body |-> None],
     [kind |-> "badjson", status |-> 200, body |-> None]}
    \cup {[kind |-> "json", status |-> 200, body |-> Some(b)] : b \in Bodies(product)}

\* fetchJSON(url) once the response resp is in: the promise's settlement
fetchJSON(resp) ==
    CASE resp.kind = "neterr" ->
            [st |-> "rejected", value |-> None, reason |-> "TypeError: fetch failed"]
      [] resp.kind = "http" ->
            [st |-> "rejected", value |-> None, reason |-> "API error: 500"]
      [] resp.kind = "badjson" ->
            [st |-> "rejected", value |-> None, reason |-> "SyntaxError: invalid JSON"]
      [] resp.kind = "json" ->
            [st |-> "fulfilled", value |-> resp.body, reason |-> ""]

\* mutant: the .catch is missing, the rejection stays
Catch_Missing(settled, dflt) == settled

\* promise.catch(() => dflt): a rejection becomes the default value
Catch(settled, dflt) ==
    IF settled.st = "rejected" /\ dflt # None
    THEN [st |-> "fulfilled", value |-> dflt, reason |-> ""]
    ELSE settled

\* one fetchJSON call of a handler: its URL and, when the call carries a
\* .catch, the value the catch puts in place of a rejection
Call(url, dflt) ==
    [url |-> url, dflt |-> dflt, st |-> "pending", resp |-> None, value |-> None, reason |-> ""]

TideUrl(station, range) ==
    [base |-> "NOAA_API", product |-> "predictions", station |-> station, range |-> range]

WindUrl(station) ==
    [base |-> "NOAA_API", product |-> "wind", station |-> station, range |-> <<"today">>]

StationUrl(station) ==
    [base |-> "NOAA_STATIONS", product |-> "station", station |-> station, range |-> <<>>]

ListUrl ==
    [base |-> "NOAA_STATIONS", product |-> "stations", station |-> <<>>, range |-> <<>>]

WindDefault == [data |-> Some(<<>>)]

StationDefault == [stations |-> Some(<<>>)]

(* ------------------------------ handlers ------------------------------ *)

\* x || [] for an array property that may be missing
OrEmpty(opt) == IF opt = None THEN <<>> ELSE opt[1]

Min(a, b) == IF a <= b THEN a ELSE b

Max(a, b) == IF a >= b THEN a ELSE b

\* Array.prototype.slice(0, end)
Slice(arr, end) ==
    LET len == Len(arr)
        relativeEnd == Trunc(end)
        final == IF relativeEnd < 0 THEN Max(len + relativeEnd, 0) ELSE Min(relativeEnd, len)
    IN SubSeq(arr, 1, final)

Returned(output) == [kind |-> "returned", output |-> output]

Threw(reason) == [kind |-> "threw", reason |-> reason]

overviewHandler(featured, data, clock) ==
    Returned([station |-> featured,
              tides |-> parseTides(OrEmpty(data.predictions)),
              fetchedAt |-> clock,
              dataSource |-> "NOAA Tides & Currents (live)",
              availableStations |-> 3379,
              hint |-> "Use paid endpoints for specific stations, forecasts, and full conditions"])

tidesHandler(in, data, clock) ==
    IF data.error # None
    THEN Returned([error |-> data.error[1].message, stationId |-> in.stationId])
    ELSE Returned([stationId |-> in.stationId,
                   date |-> clock \div 10,
                   tides |-> parseTides(OrEmpty(data.predictions)),
                   units |-> "feet (MLLW datum)",
                   fetchedAt |-> clock])

PickStation(st) == [id |-> st.id, name |-> st.name, lat |-> st.lat, lng |-> st.lng, state |-> st.state]

searchHandler(in, data, clock) ==
    LET stateUpper == ToUpperCase(in.state)
        matching == SelectSeq(OrEmpty(data.stations), LAMBDA st : st.state = stateUpper)
        sliced == Slice(matching, in.limit)
        stations == [i \in 1..Len(sliced) |-> PickStation(sliced[i])]
    IN Returned([state |-> stateUpper,
                 count |-> Len(stations),
                 stations |-> stations,
                 fetchedAt |-> clock])

forecastHandler(in, data, clock) ==
    IF data.error # None
    THEN Returned([error |-> data.error[1].message, stationId |-> in.stationId])
    ELSE Returned([stationId |-> in.stationId,
                   days |-> in.days,
                   forecast |-> ByDate(parseTides(OrEmpty(data.predictions))),
                   units |-> "feet (MLLW datum)",
                   fetchedAt |-> clock])

\* stationData.stations?.[0] || {}
FirstStation(stationData) ==
    IF OrEmpty(stationData.stations) = <<>> THEN NoStation ELSE stationData.stations[1][1]

\* station.name || 'Unknown'
StationName(station) ==
    IF station.name = None \/ station.name = Some("") THEN "Unknown" ELSE station.name[1]

\* data.error ? [] : parseTides(data.predictions || [])
TidesUnlessError(data) ==
    IF data.error # None THEN <<>> ELSE parseTides(OrEmpty(data.predictions))

conditionsHandler(in, tidesData, windData, stationData, clock) ==
    LET station == FirstStation(stationData)
    IN Returned([station |-> [id |-> in.stationId,
                              name |-> StationName(station),
                              lat |-> station.lat,
                              lng |-> station.lng,
                              state |-> station.state,
                              timezone |-> station.timezone],
                 tides |-> TidesUnlessError(tidesData),
                 wind |-> parseWind(windData.data),
                 units |-> [tide |-> "feet (MLLW datum)", wind |-> "knots"],
                 fetchedAt |-> clock])

reportHandler(in, todayTides, forecastTides, windData, stationData, clock) ==
    LET station == FirstStation(stationData)
        todayParsed == TidesUnlessError(todayTides)
        forecastParsed == TidesUnlessError(forecastTides)
        wind == parseWind(windData.data)
    IN Returned([station |-> [id |-> in.stationId,
                              name |-> StationName(station),
                              lat |-> station.lat,
                              lng |-> station.lng,
                              state |-> station.state,
                              timezone |-> station.timezone,
                              tideType |-> station.tideType],
                 today |-> [tides |-> todayParsed, nextTide |-> NextTide(todayParsed, clock)],
                 fiveDayForecast |-> ByDate(forecastParsed),
                 currentWind |-> wind,
                 summary |-> [highTidesPerDay |->
                                  Len(SelectSeq(todayParsed, LAMBDA t : t.type = "high")),
                              lowTidesPerDay |->
                                  Len(SelectSeq(todayParsed, LAMBDA t : t.type = "low")),
                              windConditions |-> WindConditions(wind)],
                 units |-> [tide |-> "feet (MLLW datum)", wind |-> "knots"],
                 generatedAt |-> clock,
                 dataSource |-> "NOAA Tides & Currents"])

\* the rest of entrypoint e's handler once every awaited call is fulfilled
HandlerResult(e, in, f, clock) ==
    CASE e = "overview" -> overviewHandler(in.featured, f[1].value[1], clock)
      [] e = "tides" -> tidesHandler(in, f[1].value[1], clock)
      [] e = "search" -> searchHandler(in, f[1].value[1], clock)
      [] e = "forecast" -> forecastHandler(in, f[1].value[1], clock)
      [] e = "conditions" ->
            conditionsHandler(in, f[1].value[1], f[2].value[1], f[3].value[1], clock)
      [] e = "report" ->
            reportHandler(in, f[1].value[1], f[2].value[1], f[3].value[1], f[4].value[1], clock)

(* ------------------------------- actions ------------------------------ *)

\* the handler of entrypoint e starts on input in, issues its calls and
\* awaits them
Start(e, in, calls, clock) ==
    /\ ep' = e
    /\ input' = in
    /\ fetches' = calls
    /\ issued' = Len(calls)
    /\ now' = clock
    /\ pc' = "awaiting"
    /\ UNCHANGED result

\* the input schema of entrypoint e rejects the request: no handler runs
Refuse(e) ==
    /\ ep' = e
    /\ pc' = "done"
    /\ result' = [kind |-> "invalid"]
    /\ UNCHANGED <<input, fetches, issued, now>>

InvokeOverview ==
    /\ pc = "idle"
    /\ \E i \in DOMAIN FEATURED_STATIONS, clock \in Clock :
          Start("overview", [featured |-> FEATURED_STATIONS[i]],
                <<Call(TideUrl(FEATURED_STATIONS[i].id, <<"today">>), None)>>, clock)
    /\ UNCHANGED fnVars

InvokeTides ==
    /\ pc = "idle"
    /\ \E stationId \in RawStationIds, clock \in Clock :
          LET in == StationInputSchema([stationId |-> stationId])
          IN IF in = None THEN Refuse("tides")
             ELSE Start("tides", in[1],
                        <<Call(TideUrl(in[1].stationId, <<"today">>), None)>>, clock)
    /\ UNCHANGED fnVars

InvokeSearch ==
    /\ pc = "idle"
    /\ \E state \in RawStates, limit \in RawLimits, clock \in Clock :
          LET in == SearchInputSchema([state |-> state, limit |-> limit])
          IN IF in = None THEN Refuse("search")
             ELSE Start("search", in[1], <<Call(ListUrl, None)>>, clock)
    /\ UNCHANGED fnVars

InvokeForecast ==
    /\ pc = "idle"
    /\ \E stationId \in RawStationIds, days \in RawDays, clock \in Clock :
          LET in == ForecastInputSchema([stationId |-> stationId, days |-> days])
          IN IF in = None THEN Refuse("forecast")
             ELSE LET beginDate == getDateStr(Num(0), clock)
                      endDate == getDateStr(in[1].days, clock)
                  IN Start("forecast", in[1],
                           <<Call(TideUrl(in[1].stationId, <<beginDate, endDate>>), None)>>,
                           clock)
    /\ UNCHANGED fnVars

InvokeConditions ==
    /\ pc = "idle"
    /\ \E stationId \in RawStationIds, clock \in Clock :
          LET in == StationInputSchema([stationId |-> stationId])
          IN IF in = None THEN Refuse("conditions")
             ELSE Start("conditions", in[1],
                        <<Call(TideUrl(in[1].stationId, <<"today">>), None),
                          Call(WindUrl(in[1].stationId), Some(WindDefault)),
                          Call(StationUrl(in[1].stationId), Some(StationDefault))>>, clock)
    /\ UNCHANGED fnVars

ReportDays == 5

InvokeReport ==
    /\ pc = "idle"
    /\ \E stationId \in RawStationIds, clock \in Clock :
          LET in == StationInputSchema([stationId |-> stationId])
          IN IF in = None THEN Refuse("report")
             ELSE LET beginDate == getDateStr(Num(0), clock)
                      endDate == getDateStr(Num(ReportDays * Scale), clock)
                  IN Start("report", in[1],
                           <<Call(TideUrl(in[1].stationId, <<"today">>), None),
                             Call(TideUrl(in[1].stationId, <<beginDate, endDate>>), None),
                             Call(WindUrl(in[1].stationId), Some(WindDefault)),
                             Call(StationUrl(in[1].stationId), Some(StationDefault))>>, clock)
    /\ UNCHANGED fnVars

\* mutant: a rejected call is issued again
SettleCall_Retry(i, resp) ==
    LET settled == Catch(fetchJSON(resp), fetches[i].dflt)
    IN IF fetchJSON(resp).st = "rejected"
       THEN /\ issued' = issued + 1
            /\ UNCHANGED fetches
       ELSE /\ fetches' = [fetches EXCEPT ![i].st = settled.st,
                                          ![i].resp = Some(resp),
                                          ![i].value = settled.value,
                                          ![i].reason = settled.reason]
            /\ UNCHANGED issued

\* call i of the running request settles on response resp; issued counts
\* the calls made
SettleCall(i, resp) ==
    LET settled == Catch(fetchJSON(resp), fetches[i].dflt)
    IN /\ fetches' = [fetches EXCEPT ![i].st = settled.st,
                                     ![i].resp = Some(resp),
                                     ![i].value = settled.value,
                                     ![i].reason = settled.reason]
       /\ UNCHANGED issued

\* The response to a pending call arrives.  If the handler is awaiting
\* (await fetchJSON, or await Promise.all) it resumes in the same turn:
\* an uncaught rejection leaves the handler as an exception, and once all
\* calls are fulfilled the handler builds its output.  After the handler
\* threw, the calls still in flight settle unobserved.
Settle ==
    /\ pc \in {"awaiting", "done"}
    /\ \E i \in DOMAIN fetches :
          /\ fetches[i].st = "pending"
          /\ \E resp \in Responses(fetches[i].url.product) :
                /\ SettleCall(i, resp)
                /\ IF pc = "awaiting" /\ fetches'[i].st = "rejected"
                   THEN /\ pc' = "done"
                        /\ result' = Threw(fetches'[i].reason)
                        /\ UNCHANGED now
                   ELSE IF pc = "awaiting" /\ \A j \in DOMAIN fetches : fetches'[j].st = "fulfilled"
                   THEN \E clock \in Clock :
                           /\ clock >= now
                           /\ now' = clock
                           /\ pc' = "done"
                           /\ result' = HandlerResult(ep, input, fetches', clock)
                   ELSE UNCHANGED <<pc, now, result>>
    /\ UNCHANGED <<ep, input, fnVars>>

\* the framework has the handler's outcome; the next request may start
Reply ==
    /\ pc = "done"
    /\ pc' = "idle"
    /\ ep' = "none"
    /\ input' = <<>>
    /\ fetches' = <<>>
    /\ issued' = 0
    /\ now' = 0
    /\ result' = [kind |-> "none"]
    /\ UNCHANGED fnVars

(* --------------- the normalisation functions, applied ----------------- *)

FnIdle == fnOp = "idle" /\ fnArg = <<>> /\ fnRet = <<>>

ApplyParseTides ==
    /\ fnOp = "idle"
    /\ \E predictions \in SeqUpTo(RawPredictions, MaxLen) :
          /\ fnOp' = "parseTides"
          /\ fnArg' = predictions
          /\ fnRet' = parseTides(predictions)
    /\ UNCHANGED reqVars

ApplyParseWind ==
    /\ fnOp = "idle"
    /\ \E data \in {None} \cup {Some(w) : w \in SeqUpTo(RawWinds, MaxLen)} :
          /\ fnOp' = "parseWind"
          /\ fnArg' = data
          /\ fnRet' = parseWind(data)
    /\ UNCHANGED reqVars

ApplyByDate ==
    /\ fnOp = "idle"
    /\ \E predictions \in SeqUpTo(RawTimed, MaxLen + 1) :
          /\ fnOp' = "byDate"
          /\ fnArg' = parseTides(predictions)
          /\ fnRet' = ByDate(parseTides(predictions))
    /\ UNCHANGED reqVars

ApplyNextTide ==
    /\ fnOp = "idle"
    /\ \E predictions \in SeqUpTo(RawTimed, MaxLen), clock \in Clock :
          /\ fnOp' = "nextTide"
          /\ fnArg' = [todayParsed |-> parseTides(predictions), now |-> clock]
          /\ fnRet' = NextTide(parseTides(predictions), clock)
    /\ UNCHANGED reqVars

ApplyWindConditions ==
    /\ fnOp = "idle"
    /\ \E data \in {None, Some(<<>>)}
                   \cup {Some(<<w>>) : w \in [t : {<<"1", " ", "2">>}, s : SpeedStrs,
                                              d : {<<>>}, dr : {"W"}, g : {<<>>}]} :
          /\ fnOp' = "windConditions"
          /\ fnArg' = parseWind(data)
          /\ fnRet' = WindConditions(parseWind(data))
    /\ UNCHANGED reqVars

FnReturn ==
    /\ fnOp # "idle"
    /\ fnOp' = "idle"
    /\ fnArg' = <<>>
    /\ fnRet' = <<>>
    /\ UNCHANGED reqVars

ReqIdle ==
    /\ pc = "idle"
    /\ ep = "none"
    /\ input = <<>>
    /\ fetches = <<>>
    /\ issued = 0
    /\ now = 0
    /\ result = [kind |-> "none"]

Init == ReqIdle /\ FnIdle

NextFn ==
    \/ ApplyParseTides
    \/ ApplyParseWind
    \/ ApplyByDate
    \/ ApplyNextTide
    \/ ApplyWindConditions
    \/ FnReturn

SpecFn == Init /\ [][NextFn]_vars

Next ==
    \/ InvokeOverview
    \/ InvokeTides
    \/ InvokeSearch
    \/ InvokeForecast
    \/ InvokeConditions
    \/ InvokeReport
    \/ Settle
    \/ Reply

Spec == Init /\ [][Next]_vars

(* ------------------- claims on the normalisation functions ------------ *)

\* C3: parseTides is an element-wise map: the output is as long as the
\* input, and output i carries input i's t as time and the kind of input
\* i's type code ("H" high, "L" low, anything else or nothing: reading).
C3_ParseTidesElementwise ==
    fnOp = "parseTides" =>
        /\ Len(fnRet) = Len(fnArg)
        /\ \A i \in 1..Len(fnArg) :
              /\ fnRet[i].time = fnArg[i].t
              /\ fnArg[i].type = Some("H") => fnRet[i].type = "high"
              /\ fnArg[i].type = Some("L") => fnRet[i].type = "low"
              /\ fnArg[i].type \notin {Some("H"), Some("L")} => fnRet[i].type = "reading"

C3_Witness ==
    /\ fnOp = "parseTides"
    /\ Len(fnArg) >= 2
    /\ fnArg[1].type = None
    /\ fnArg[2].type = Some("H")
    /\ fnArg[1].t # fnArg[2].t
    /\ fnRet[1].type = "reading"
    /\ fnRet[2].type = "high"

\* C4: parseWind yields nothing for an absent or empty series, and
\* otherwise the reading made of the last element's t, s, d, dr and g.
C4_ParseWindLatest ==
    fnOp = "parseWind" =>
        IF fnArg = None \/ fnArg[1] = <<>> THEN fnRet = None
        ELSE LET last == fnArg[1][Len(fnArg[1])]
             IN /\ fnRet # None
                /\ fnRet[1].time = last.t
                /\ fnRet[1].speed = ParseFloat(last.s)
                /\ fnRet[1].direction = ParseInt(last.d)
                /\ fnRet[1].directionLabel = last.dr
                /\ fnRet[1].gust = ParseFloat(last.g)

C4_Witness ==
    /\ fnOp = "parseWind"
    /\ fnArg # None
    /\ Len(fnArg[1]) >= 2
    /\ fnArg[1][1].s # fnArg[1][Len(fnArg[1])].s
    /\ fnArg[1][1].t # fnArg[1][Len(fnArg[1])].t
    /\ fnRet # None
    /\ fnRet[1].speed = Num(16 * Scale)

\* k is the part of time before its first space (all of it without space)
IsDateKey(k, time) ==
    /\ Len(k) <= Len(time)
    /\ SubSeq(time, 1, Len(k)) = k
    /\ \A i \in 1..Len(k) : k[i] # " "
    /\ Len(k) = Len(time) \/ time[Len(k) + 1] = " "

IsLater(t, clock) ==
    LET d == DateParse(ReplaceSpace(t.time))
    IN ~d.nan /\ d.v > clock * Scale

\* C6: nextTide is the first of today's predictions, in input order, that
\* is strictly later than now, and nothing when none is; a prediction at
\* the very instant now is never returned.
C6_NextTideFirstLater ==
    fnOp = "nextTide" =>
        LET tides == fnArg.todayParsed
            later == {i \in 1..Len(tides) : IsLater(tides[i], fnArg.now)}
        IN /\ later = {} => fnRet = None
           /\ later # {} =>
                 \E i \in later :
                    /\ \A j \in later : i <= j
                    /\ fnRet = Some(tides[i])
           /\ fnRet # None => DateParse(ReplaceSpace(fnRet[1].time)) # Num(fnArg.now * Scale)

C6_Witness ==
    /\ fnOp = "nextTide"
    /\ Len(fnArg.todayParsed) = 2
    /\ DateParse(ReplaceSpace(fnArg.todayParsed[1].time)) = Num(fnArg.now * Scale)
    /\ IsLater(fnArg.todayParsed[2], fnArg.now)
    /\ fnRet = Some(fnArg.todayParsed[2])

\* C7 as stated: unknown exactly when the reading is absent, windy exactly
\* when speed > 15, moderate exactly when 8 < speed <= 15, calm exactly
\* when speed <= 8.
C7_AsStated ==
    fnOp = "windConditions" =>
        /\ fnRet = "unknown" <=> fnArg = None
        /\ fnRet = "windy" <=> (fnArg # None /\ Gt(fnArg[1].speed, Num(15 * Scale)))
        /\ fnRet = "moderate" <=>
              (fnArg # None /\ Gt(fnArg[1].speed, Num(8 * Scale))
                            /\ Lte(fnArg[1].speed, Num(15 * Scale)))
        /\ fnRet = "calm" <=> (fnArg # None /\ Lte(fnArg[1].speed, Num(8 * Scale)))

\* C7, amended: unknown exactly when the reading is absent, windy exactly
\* when speed > 15, moderate exactly when 8 < speed <= 15, and calm
\* exactly when the reading is present and its speed is not above 8, that
\* is speed <= 8 or the speed is not a number.
C7_WindConditions ==
    fnOp = "windConditions" =>
        /\ fnRet \in {"unknown", "windy", "moderate", "calm"}
        /\ fnRet = "unknown" <=> fnArg = None
        /\ fnRet = "windy" <=> (fnArg # None /\ Gt(fnArg[1].speed, Num(15 * Scale)))
        /\ fnRet = "moderate" <=>
              (fnArg # None /\ Gt(fnArg[1].speed, Num(8 * Scale))
                            /\ Lte(fnArg[1].speed, Num(15 * Scale)))
        /\ fnRet = "calm" <=>
              (fnArg # None /\ (Lte(fnArg[1].speed, Num(8 * Scale)) \/ fnArg[1].speed.nan))

C7_Witness ==
    /\ fnOp = "windConditions"
    /\ fnArg # None
    /\ fnArg[1].speed.nan
    /\ fnRet = "calm"

(* ------------------------- claims on the requests --------------------- *)

\* a handler ran (the input passed the schema) and has finished
Finished == pc = "done" /\ result.kind \in {"returned", "threw"}

\* the calls of entrypoint e that fetch tide predictions
TideCalls(e) ==
    CASE e \in {"overview", "tides", "forecast", "conditions"} -> {1}
      [] e = "report" -> {1, 2}
      [] OTHER -> {}

\* call i failed: its fetch was rejected, not OK, or not JSON
CallFailed(i) == fetches[i].resp # None /\ fetches[i].resp[1].kind # "json"

\* call i brought an upstream error payload
CallErrorPayload(i) ==
    /\ fetches[i].resp # None
    /\ fetches[i].resp[1].kind = "json"
    /\ fetches[i].resp[1].body[1].error # None

\* C1: whenever a tide-prediction fetch of overview, tides, forecast,
\* conditions or report fails or brings an error payload, the handler
\* returns an output carrying a structured error and throws nothing.
C1_TideFailureIsStructuredError ==
    (Finished /\ \E i \in TideCalls(ep) : CallFailed(i) \/ CallErrorPayload(i)) =>
        /\ result.kind = "returned"
        /\ "error" \in DOMAIN result.output

\* C2: in conditions and report, when the tide fetches succeed the request
\* succeeds whatever the wind and station fetches do and in whatever order
\* the fetches complete: a failed wind fetch gives no wind, a failed
\* station fetch the name 'Unknown', and the tides of the output are the
\* ones parsed from the tide responses.
C2_OptionalFetchesDegrade ==
    (/\ pc = "done"
     /\ ep \in {"conditions", "report"}
     /\ result.kind # "invalid"
     /\ \A i \in TideCalls(ep) :
           /\ fetches[i].resp # None
           /\ ~CallFailed(i)
           /\ ~CallErrorPayload(i)) =>
        /\ result.kind = "returned"
        /\ LET out == result.output
               w == IF ep = "conditions" THEN 2 ELSE 3
               wind == IF ep = "conditions" THEN out.wind ELSE out.currentWind
               tides == IF ep = "conditions" THEN out.tides ELSE out.today.tides
           IN /\ CallFailed(w) => wind = None
              /\ CallFailed(w + 1) => out.station.name = "Unknown"
              /\ tides = parseTides(OrEmpty(fetches[1].resp[1].body[1].predictions))
              /\ ep = "report" =>
                    out.fiveDayForecast =
                        ByDate(parseTides(OrEmpty(fetches[2].resp[1].body[1].predictions)))

C2_Witness ==
    /\ pc = "done"
    /\ ep = "report"
    /\ result.kind = "returned"
    /\ CallFailed(3)
    /\ CallFailed(4)
    /\ Len(result.output.today.tides) = 3
    /\ result.output.fiveDayForecast # <<>>
    /\ result.output.currentWind = None
    /\ result.output.station.name = "Unknown"

\* C8: within a request every upstream call is made exactly once: the
\* number of calls a handler has made is 1 for overview, tides, search and
\* forecast, 3 for conditions and 4 for report, whichever calls fail.
C8_EachCallOnce ==
    (pc \in {"awaiting", "done"} /\ result.kind # "invalid") =>
        /\ issued = CASE ep \in {"overview", "tides", "search", "forecast"} -> 1
                      [] ep = "conditions" -> 3
                      [] ep = "report" -> 4
        /\ Len(fetches) = issued

C8_Witness ==
    /\ pc = "done"
    /\ ep = "report"
    /\ result.kind = "threw"
    /\ CallFailed(2)
    /\ CallFailed(3)
    /\ CallErrorPayload(1)
    /\ issued = 4

\* n is a whole number
IsInteger(n) == ~n.nan /\ n.v % Scale = 0

\* C9: a handler only runs with a state code of exactly 2 characters, a
\* limit that is a positive integer and a day count that is an integer
\* from 1 to 7.
C9_ValidatedInputs ==
    (pc \in {"awaiting", "done"} /\ result.kind # "invalid") =>
        /\ ep = "search" =>
              /\ Len(input.state) = 2
              /\ IsInteger(input.limit)
              /\ input.limit.v > 0
        /\ ep = "forecast" =>
              /\ IsInteger(input.days)
              /\ input.days.v >= 1 * Scale
              /\ input.days.v <= 7 * Scale

\* the places in the upstream list of the stations of state st
RECURSIVE MatchingPlaces(_, _, _)
MatchingPlaces(list, st, i) ==
    IF i > Len(list) THEN <<>>
    ELSE (IF list[i].state = st THEN <<i>> ELSE <<>>) \o MatchingPlaces(list, st, i + 1)

\* the search output out answers input in on the upstream list as C10 says
SearchAnswer(in, list, out) ==
    LET places == MatchingPlaces(list, ToUpperCase(in.state), 1)
    IN /\ \A i \in 1..Len(out.stations) : out.stations[i].state = ToUpperCase(in.state)
       /\ Len(out.stations) <= Len(places)
       /\ \A i \in 1..Len(out.stations) : out.stations[i].id = list[places[i]].id
       /\ out.count * Scale < in.limit.v => Len(out.stations) = Len(places)
       /\ out.count = Len(out.stations)
       /\ out.count * Scale <= in.limit.v

\* C10: for every accepted search input and every upstream list, the
\* returned stations all have the upper-cased input state, are the first
\* matching stations of the list in its order (none skipped while fewer
\* than limit are returned), count is their number and never exceeds limit.
C10_SearchResult ==
    (pc = "done" /\ ep = "search" /\ result.kind = "returned") =>
        SearchAnswer(input, OrEmpty(fetches[1].resp[1].body[1].stations), result.output)

\* C10 holds of the searches whose limit is a positive integer
C10_ForPositiveIntegerLimit ==
    (/\ pc = "done" /\ ep = "search" /\ result.kind = "returned"
     /\ IsInteger(input.limit) /\ input.limit.v > 0) =>
        SearchAnswer(input, OrEmpty(fetches[1].resp[1].body[1].stations), result.output)

====
